---- MODULE Spec2Model ----
(***************************************************************************)
(* A model of lewis' stream adapter (lewis/adapters/stream.py): command    *)
(* declaration and binding (Cmd, Var, StreamAdapter._bind_commands), the   *)
(* per-connection request dispatcher (StreamHandler), and of the adapter   *)
(* collection that time-slices a cycle over its adapters.                  *)
(***************************************************************************)
EXTENDS Integers, Sequences, FiniteSets, TLC

(***************************************************************************)
(* Bounds of the model.                                                    *)
(***************************************************************************)
\* longest request (in characters) a connection accumulates
MaxLen == 3
\* longest chunk handed to collect_incoming_data at once
MaxChunk == 2
\* most command specs in StreamAdapter.commands
MaxCmds == 2
\* most adapters ever registered in an AdapterCollection
MaxAdapters == 2
\* largest cycle delay passed to AdapterCollection.handle
MaxDelay == 2
\* the bytes, terminators among them, the observer of a connection records
MaxWire == 5
\* most capture groups of a pattern, mapping functions of a Cmd and arguments
\* given to map_arguments
MaxGroups == 2

(***************************************************************************)
(* Python values.  None, str and int are kept apart by their tag, so that  *)
(* str(x), reply + terminator and callable(x) behave as in Python.         *)
(***************************************************************************)
None == [t |-> "none"]
PyStr(s) == [t |-> "str", s |-> s]
PyInt(n) == [t |-> "int", n |-> n]
\* an exception instance: its class and what it is about
Exc(cls, what) == [t |-> "exc", cls |-> cls, what |-> what]

\* the characters requests are made of; Digits are those [0-9] matches
Digits == <<"0", "1", "2", "3", "4", "5", "6", "7", "8", "9">>
IsDigit(c) == \E i \in 1..Len(Digits) : Digits[i] = c
DigitVal(c) == (CHOOSE i \in 1..Len(Digits) : Digits[i] = c) - 1
Alphabet == {"S", "=", "1"}

\* int(s) of a string of decimal digits
RECURSIVE ParseInt(_)
ParseInt(s) ==
    IF Len(s) = 0 THEN 0
    ELSE 10 * ParseInt(SubSeq(s, 1, Len(s) - 1)) + DigitVal(s[Len(s)])

\* str(n) of a non-negative int
RECURSIVE IntToStr(_)
IntToStr(n) ==
    IF n < 10 THEN <<Digits[n + 1]>>
    ELSE IntToStr(n \div 10) \o <<Digits[(n % 10) + 1]>>

\* b''.join(chunks)
RECURSIVE Join(_)
Join(chunks) ==
    IF Len(chunks) = 0 THEN <<>> ELSE Head(chunks) \o Join(Tail(chunks))

(***************************************************************************)
(* Regular expressions.  A pattern is a sequence of elements, each a       *)
(* literal character or the capture group ([0-9]+), optionally closed by   *)
(* the end anchor $.  NoPattern is what Cmd.__init__ stores for an empty   *)
(* pattern string.                                                         *)
(***************************************************************************)
NoPattern == [t |-> "nopattern"]
Lit(c) == [e |-> "lit", c |-> c]
Grp == [e |-> "grp"]
Pattern(elems, anchored) == [t |-> "re", elems |-> elems, anchored |-> anchored]

\* pattern.groups
Groups(p) == Cardinality({i \in 1..Len(p.elems) : p.elems[i] = Grp})

\* length of the run of digits of s starting at position pos
RECURSIVE DigitRun(_, _)
DigitRun(s, pos) ==
    IF pos <= Len(s) /\ IsDigit(s[pos]) THEN 1 + DigitRun(s, pos + 1) ELSE 0

NoMatch == [m |-> FALSE]
\* pattern.match(request): anchored at the start of the request only.  The
\* result is NoMatch or the match with its groups().  A group is greedy; it
\* is never followed by a digit literal or by another group in the patterns
\* used here, so the longest run of digits is the only candidate.
RECURSIVE MatchFrom(_, _, _, _, _)
MatchFrom(elems, i, anchored, s, pos) ==
    IF i > Len(elems)
    THEN IF anchored /\ pos <= Len(s) THEN NoMatch
         ELSE [m |-> TRUE, groups |-> <<>>]
    ELSE IF elems[i] = Grp
    THEN LET n == DigitRun(s, pos)
         IN  IF n = 0 THEN NoMatch
             ELSE LET rest == MatchFrom(elems, i + 1, anchored, s, pos + n)
                  IN  IF rest.m
                      THEN [m |-> TRUE,
                            groups |-> <<PyStr(SubSeq(s, pos, pos + n - 1))>> \o rest.groups]
                      ELSE NoMatch
    ELSE IF pos <= Len(s) /\ s[pos] = elems[i].c
         THEN MatchFrom(elems, i + 1, anchored, s, pos + 1)
         ELSE NoMatch

Match(p, s) == MatchFrom(p.elems, 1, p.anchored, s, 1)

(***************************************************************************)
(* Results of an operation that may raise.                                 *)
(***************************************************************************)
Ok(v) == [ok |-> TRUE, val |-> v]
Raise(e) == [ok |-> FALSE, err |-> e]

(***************************************************************************)
(* Callables.  A function object carries what the dispatcher can observe   *)
(* of it: who owns it and how many positional arguments it accepts.        *)
(***************************************************************************)
Fn(owner, name, arity) == [t |-> "fn", owner |-> owner, name |-> name, arity |-> arity]
\* callable(x)
Callable(x) == x.t = "fn"
\* Cmd's and Var's default return_mapping: lambda x: None if x is None else str(x)
DefaultReturnMapping == Fn("lewis", "default_return_mapping", 1)
\* a list (of argument mappings, of bound commands)
List(items) == [t |-> "list", items |-> items]
\* a str used as the name of a member
Name(n) == [t |-> "name", name |-> n]

(***************************************************************************)
(* The interface (the StreamAdapter subclass itself) and the device it     *)
(* exposes, as getattr sees them: a member is a method, a data attribute,  *)
(* or absent.  Of the data attributes of the device, speed = 7 is set in   *)
(* the class, level = 3 is set on the instance by __init__, and rate is a  *)
(* property without a docstring, whose value is 5.                         *)
(***************************************************************************)
Members(target) ==
    IF target = "interface"
    THEN [name \in {"get", "set"} |->
            IF name = "get" THEN Fn("interface", "get", 0)
            ELSE Fn("interface", "set", 1)]
    ELSE [name \in {"get", "stop", "speed", "level", "rate"} |->
            IF name = "get" THEN Fn("device", "get", 0)
            ELSE IF name = "stop" THEN Fn("device", "stop", 0)
            ELSE IF name = "speed" THEN PyInt(7)
            ELSE IF name = "level" THEN PyInt(3)
            ELSE PyInt(5)]
\* a property object and its docstring, None when it has none
Property(doc) == [t |-> "property", doc |-> doc]
\* the attributes of type(target): those of the instance without the ones
\* __init__ sets, a property being the property object
TypeMembers(target) ==
    [name \in DOMAIN Members(target) \ {"level"} |->
        IF name = "rate" THEN Property(None) ELSE Members(target)[name]]
\* getattr(type(target), name)
TypeAttr(target, name) ==
    IF name \in DOMAIN TypeMembers(target) THEN Ok(TypeMembers(target)[name])
    ELSE Raise(Exc("AttributeError", "type object"))
\* inspect.isdatadescriptor(x)
IsDataDescriptor(x) == x.t = "property"
\* name in dir(target)
InDir(target, name) == name \in DOMAIN Members(target)
\* getattr(target, name, None)
GetAttr(target, name) ==
    IF InDir(target, name) THEN Members(target)[name] ELSE None

(***************************************************************************)
(* Cmd                                                                     *)
(***************************************************************************)
\* re.compile(b(pattern), 0) if pattern else None
Compile(raw) ==
    IF raw = None \/ (raw.elems = <<>> /\ ~raw.anchored) THEN NoPattern ELSE raw

\* member is None: super(Cmd, self).__init__(None, ...)
CmdObject(func, raw, argument_mappings, return_mapping) ==
    [t |-> "Cmd", member |-> None, func |-> func, raw_pattern |-> raw,
     pattern |-> Compile(raw),
     argument_mappings |-> argument_mappings, return_mapping |-> return_mapping]

\* Cmd.__init__: the object, or the exception the constructor raises
CmdInit(func, raw, argument_mappings, return_mapping) ==
    IF argument_mappings # None /\ Compile(raw) = NoPattern
    THEN Raise(Exc("AttributeError", "groups"))
    ELSE IF argument_mappings # None
            /\ Groups(Compile(raw)) # Len(argument_mappings.items)
    THEN Raise(Exc("RuntimeError", "argument mappings"))
    ELSE Ok(CmdObject(func, raw, argument_mappings, return_mapping))

\* Cmd.bind(target): None, or a list of bound commands, or an exception
\* [c], or the exception the constructor of c raised
ListOf(c) == IF c.ok THEN Ok(List(<<c.val>>)) ELSE c

CmdBind(cmd, target) ==
    IF Callable(cmd.func) THEN Ok(List(<<cmd>>))
    ELSE IF GetAttr(target, cmd.func.name) = None THEN Ok(None)
    ELSE ListOf(CmdInit(GetAttr(target, cmd.func.name), cmd.raw_pattern,
                        cmd.argument_mappings, cmd.return_mapping))

(***************************************************************************)
(* Var                                                                     *)
(***************************************************************************)
VarObject(member, read_pattern, write_pattern, argument_mappings, return_mapping) ==
    [t |-> "Var", member |-> member, read_pattern |-> read_pattern,
     write_pattern |-> write_pattern, argument_mappings |-> argument_mappings,
     return_mapping |-> return_mapping]

\* the closures Var.bind creates around target and member
Getter(target, member) ==
    [t |-> "fn", owner |-> target, name |-> "getter", member |-> member, arity |-> 0]
Setter(target, member) ==
    [t |-> "fn", owner |-> target, name |-> "setter", member |-> member, arity |-> 1]

\* if inspect.isdatadescriptor(getattr(type(target), self.member)):
\*     getter.__doc__ = 'Getter: ' + inspect.getdoc(getattr(type(target), self.member))
\* on_type being what getattr(type(target), self.member) gave: the
\* exception of getattr, or of str + None for a property without docstring
WithDoc(on_type) ==
    IF ~on_type.ok THEN on_type
    ELSE IF IsDataDescriptor(on_type.val) /\ on_type.val.doc = None
    THEN Raise(Exc("TypeError", "str + None"))
    ELSE Ok(None)

\* a bind that puts each command in front of the ones before: funcs.insert(0, ...)
AppendCmdInFront(funcs, pattern, documented, c) ==
    IF ~funcs.ok \/ pattern = None THEN funcs
    ELSE IF ~documented.ok THEN documented
    ELSE IF ~c.ok THEN c
    ELSE Ok(List(<<c.val>> \o funcs.val.items))

\* the body of `if self.read_pattern is not None` and of its like for the
\* write pattern: documented is what setting __doc__ gave, c what Cmd(...)
\* gave; the list after funcs.append, or the exception raised first
AppendCmd(funcs, pattern, documented, c) ==
    IF ~funcs.ok \/ pattern = None THEN funcs
    ELSE IF ~documented.ok THEN documented
    ELSE IF ~c.ok THEN c
    ELSE Ok(List(Append(funcs.val.items, c.val)))

\* Var.bind(target)
VarBind(var, target) ==
    IF ~InDir(target, var.member.name) THEN Ok(None)
    ELSE AppendCmd(
            AppendCmd(Ok(List(<<>>)), var.read_pattern,
                      WithDoc(TypeAttr(target, var.member.name)),
                      CmdInit(Getter(target, var.member.name), var.read_pattern,
                              None, var.return_mapping)),
            var.write_pattern,
            WithDoc(TypeAttr(target, var.member.name)),
            CmdInit(Setter(target, var.member.name), var.write_pattern,
                    var.argument_mappings, var.return_mapping))

\* cmd.bind(target), by the class of cmd
Bind(cmd, target) ==
    IF cmd.t = "Cmd" THEN CmdBind(cmd, target) ELSE VarBind(cmd, target)

\* Python truth of what bind returns: None and the empty list are false
Truthy(x) == x # None /\ ~(x.t = "list" /\ x.items = <<>>)

(***************************************************************************)
(* StreamAdapter._bind_commands                                            *)
(***************************************************************************)
\* x or None, x being what a call returned or raised
OrNone(x) == IF ~x.ok \/ Truthy(x.val) THEN x ELSE Ok(None)

\* first or cmd.bind(self._device) or None
OrDevice(first, cmd) ==
    IF ~first.ok \/ Truthy(first.val) THEN first ELSE OrNone(Bind(cmd, "device"))

\* bound = cmd.bind(self) or cmd.bind(self._device) or None
BindEither(cmd) == OrDevice(Bind(cmd, "interface"), cmd)

\* an inner loop that never records the patterns it has seen
RECURSIVE AddBoundForgetting(_, _, _, _)
AddBoundForgetting(bound, j, patterns, bound_commands) ==
    IF j > Len(bound)
    THEN Ok([patterns |-> patterns, bound_commands |-> bound_commands])
    ELSE AddBoundForgetting(bound, j + 1, patterns, Append(bound_commands, bound[j]))

\* the inner loop: for bound_cmd in bound
RECURSIVE AddBound(_, _, _, _)
AddBound(bound, j, patterns, bound_commands) ==
    IF j > Len(bound)
    THEN Ok([patterns |-> patterns, bound_commands |-> bound_commands])
    ELSE IF bound[j].pattern \in patterns
    THEN IF bound[j].pattern = NoPattern
         THEN Raise(Exc("AttributeError", "pattern"))
         ELSE Raise(Exc("RuntimeError", "multiple commands"))
    ELSE AddBound(bound, j + 1, patterns \cup {bound[j].pattern},
                  Append(bound_commands, bound[j]))

\* the outer loop: for cmd in cmds
RECURSIVE BindFrom(_, _, _, _)
\* the rest of the loop, added being what the inner loop gave
BindNext(cmds, i, added) ==
    IF ~added.ok THEN added
    ELSE BindFrom(cmds, i + 1, added.val.patterns, added.val.bound_commands)

\* RuntimeError('Unable to produce callable object for non-existing member
\* \'{}\' of device or interface.'.format(cmd.member))
MissingMember(member) ==
    [t |-> "exc", cls |-> "RuntimeError", what |-> "non-existing member", member |-> member]

\* the body of the loop, bound being what the binding of cmds[i] gave
BindOne(cmds, i, patterns, bound_commands, bound) ==
    IF ~bound.ok THEN bound
    ELSE IF bound.val = None
    THEN Raise(MissingMember(cmds[i].member))
    ELSE BindNext(cmds, i, AddBound(bound.val.items, 1, patterns, bound_commands))

BindFrom(cmds, i, patterns, bound_commands) ==
    IF i > Len(cmds) THEN Ok(bound_commands)
    ELSE BindOne(cmds, i, patterns, bound_commands, BindEither(cmds[i]))

BindCommands(cmds) == BindFrom(cmds, 1, {}, <<>>)

(***************************************************************************)
(* Calling things.                                                         *)
(***************************************************************************)
\* str(x)
StrOf(x) ==
    IF x.t = "str" THEN x.s
    ELSE IF x.t = "int" THEN IntToStr(x.n)
    ELSE IF x.t = "none" THEN <<"N", "o", "n", "e">>
    ELSE <<"<", x.t, ">">>

AllDigits(s) == Len(s) > 0 /\ \A i \in 1..Len(s) : IsDigit(s[i])

\* the mapping functions commands are declared with, applied to one value:
\*   int      the builtin
\*   lookup   {'1': 1}.__getitem__, a mapping that knows one spelling only
\*   upper    lambda x: x.upper(), a return mapping for str results only
\*   default_return_mapping   lambda x: None if x is None else str(x)
IntMapping == Fn("builtins", "int", 1)
LookupMapping == Fn("user", "lookup", 1)
UpperMapping == Fn("user", "upper", 1)
ApplyMapping(f, x) ==
    IF f = IntMapping
    THEN IF x.t = "str" /\ AllDigits(x.s) THEN Ok(PyInt(ParseInt(x.s)))
         ELSE IF x.t = "int" THEN Ok(x)
         ELSE Raise(Exc("ValueError", "int"))
    ELSE IF f = LookupMapping
    THEN IF x = PyStr(<<"1">>) THEN Ok(PyInt(1)) ELSE Raise(Exc("KeyError", "lookup"))
    ELSE IF f = UpperMapping
    THEN IF x.t = "str" THEN Ok(x) ELSE Raise(Exc("AttributeError", "upper"))
    ELSE IF f = DefaultReturnMapping
    THEN IF x = None THEN Ok(None) ELSE Ok(PyStr(StrOf(x)))
    ELSE Raise(Exc("TypeError", "mapping"))

\* func(*args).  What a method of the device or interface returns or raises
\* is the device's business: it is the input `out`.  Var's getter reads and
\* its setter writes the member in attrs.  The result comes with the
\* attributes after the call.
CallFunc(func, args, out, attrs) ==
    IF Len(args) # func.arity
    THEN [res |-> Raise(Exc("TypeError", "arguments")), attrs |-> attrs]
    ELSE IF func.name = "getter"
    THEN [res |-> Ok(attrs[<<func.owner, func.member>>]), attrs |-> attrs]
    ELSE IF func.name = "setter"
    THEN [res |-> Ok(None),
          attrs |-> [attrs EXCEPT ![<<func.owner, func.member>>] = args[1]]]
    ELSE [res |-> out, attrs |-> attrs]

\* Cmd.can_process(request); raises when the command has no pattern
CanProcess(cmd, request) ==
    IF cmd.pattern = NoPattern THEN Raise(Exc("AttributeError", "match"))
    ELSE Ok(Match(cmd.pattern, request).m)

\* a map_arguments that converts every argument by the first mapping
RECURSIVE ZipMapByFirst(_, _, _)
ZipMapByFirst(mappings, arguments, i) ==
    IF i > Len(mappings) \/ i > Len(arguments) THEN Ok(<<>>)
    ELSE LET one == ApplyMapping(mappings[1], arguments[i])
         IN  IF ~one.ok THEN one
             ELSE LET rest == ZipMapByFirst(mappings, arguments, i + 1)
                  IN  IF ~rest.ok THEN rest ELSE Ok(<<one.val>> \o rest.val)

\* Cmd.map_arguments(arguments): zip stops at the shorter of the two
RECURSIVE ZipMap(_, _, _)
ZipMap(mappings, arguments, i) ==
    IF i > Len(mappings) \/ i > Len(arguments) THEN Ok(<<>>)
    ELSE LET one == ApplyMapping(mappings[i], arguments[i])
         IN  IF ~one.ok THEN one
             ELSE LET rest == ZipMap(mappings, arguments, i + 1)
                  IN  IF ~rest.ok THEN rest ELSE Ok(<<one.val>> \o rest.val)

MapArguments(cmd, arguments) ==
    IF cmd.argument_mappings = None THEN Ok(arguments)
    ELSE ZipMap(cmd.argument_mappings.items, arguments, 1)

\* Cmd.map_return_value(return_value)
MapReturnValue(cmd, return_value) ==
    IF Callable(cmd.return_mapping) THEN ApplyMapping(cmd.return_mapping, return_value)
    ELSE IF cmd.return_mapping # None THEN Ok(cmd.return_mapping)
    ELSE Ok(return_value)

\* Cmd.process_request(request): the mapped return value or the exception,
\* the calls of self.func that were made, and the attributes afterwards.
\* NoCall: an exception raised before self.func is reached.
NoCall(e, attrs) == [res |-> Raise(e), calls |-> <<>>, attrs |-> attrs]

\* a process_request that calls self.func again when the call raised
ProcessCallRetrying(cmd, args, r) ==
    [res |-> IF r.res.ok THEN MapReturnValue(cmd, r.res.val) ELSE r.res,
     calls |-> IF r.res.ok THEN <<[func |-> cmd.func, args |-> args, result |-> r.res]>>
               ELSE <<[func |-> cmd.func, args |-> args, result |-> r.res],
                      [func |-> cmd.func, args |-> args, result |-> r.res]>>,
     attrs |-> r.attrs]

\* return self.map_return_value(self.func(*args)), r being what the call did
ProcessCall(cmd, args, r) ==
    [res |-> IF r.res.ok THEN MapReturnValue(cmd, r.res.val) ELSE r.res,
     calls |-> <<[func |-> cmd.func, args |-> args, result |-> r.res]>>,
     attrs |-> r.attrs]

\* args = self.map_arguments(match.groups()), args being what it gave
ProcessArgs(cmd, args, out, attrs) ==
    IF ~args.ok THEN NoCall(args.err, attrs)
    ELSE ProcessCall(cmd, args.val, CallFunc(cmd.func, args.val, out, attrs))

\* match = self.pattern.match(request), match being what it gave
ProcessMatch(cmd, match, out, attrs) ==
    IF ~match.m THEN NoCall(Exc("RuntimeError", "can not be processed"), attrs)
    ELSE ProcessArgs(cmd, MapArguments(cmd, match.groups), out, attrs)

ProcessRequest(cmd, request, out, attrs) ==
    IF ~Callable(cmd.func) THEN NoCall(Exc("RuntimeError", "unbound Binder"), attrs)
    ELSE IF cmd.pattern = NoPattern THEN NoCall(Exc("AttributeError", "match"), attrs)
    ELSE ProcessMatch(cmd, Match(cmd.pattern, request), out, attrs)

(***************************************************************************)
(* StreamHandler.found_terminator                                          *)
(***************************************************************************)
\* in_terminator and out_terminator of StreamAdapter
InTerminator == <<"\r">>
OutTerminator == <<"\r">>

\* a scan that keeps going after a match, so that the last match wins
RECURSIVE SelectFromLast(_, _, _)
SelectFromLast(bound, i, request) ==
    IF i > Len(bound) THEN Ok(0)
    ELSE IF ~CanProcess(bound[i], request).ok THEN CanProcess(bound[i], request)
    ELSE IF ~SelectFromLast(bound, i + 1, request).ok
         \/ SelectFromLast(bound, i + 1, request).val # 0
    THEN SelectFromLast(bound, i + 1, request)
    ELSE IF CanProcess(bound[i], request).val THEN Ok(i)
    ELSE Ok(0)

\* next((cmd for cmd in bound_commands if cmd.can_process(request)), None):
\* the index of the command, 0 for None, or the exception can_process raised
RECURSIVE SelectFrom(_, _, _)
SelectFrom(bound, i, request) ==
    IF i > Len(bound) THEN Ok(0)
    ELSE LET can == CanProcess(bound[i], request)
         IN  IF ~can.ok THEN can
             ELSE IF can.val THEN Ok(i)
             ELSE SelectFrom(bound, i + 1, request)

SelectCommand(bound, request) == SelectFrom(bound, 1, request)

\* StreamAdapter.handle_error(request, error): the default does nothing and
\* returns None; an override may answer the client
HandleError(hook, request, error) ==
    IF hook = "default" THEN None ELSE PyStr(<<"?">>)

\* reply = cmd.process_request(request), p being what it did
Processed(p, i) ==
    [res |-> p.res, calls |-> p.calls, attrs |-> p.attrs, cmd |-> i]

\* the try statement after cmd = next(...), sel being what next(...) gave
TrySelected(sel, bound, request, out, attrs) ==
    IF ~sel.ok
    THEN [res |-> sel, calls |-> <<>>, attrs |-> attrs, cmd |-> 0]
    ELSE IF sel.val = 0
    THEN [res |-> Raise(Exc("RuntimeError", "None of the device's commands matched.")),
          calls |-> <<>>, attrs |-> attrs, cmd |-> 0]
    ELSE Processed(ProcessRequest(bound[sel.val], request, out, attrs), sel.val)

\* the body of the try statement: the reply or the exception raised in it
TryDispatch(bound, request, out, attrs) ==
    TrySelected(SelectCommand(bound, request), bound, request, out, attrs)

\* reply + self.target.out_terminator
Frame(reply) ==
    IF reply.t = "str" THEN Ok(reply.s \o OutTerminator)
    ELSE Raise(Exc("TypeError", "reply + out_terminator"))

\* a push without the test for None: str(reply) + out_terminator is written
PushUnconditionally(reply) ==
    [pushed |-> <<StrOf(reply) \o OutTerminator>>, escaped |-> None]

\* if reply is not None: self.push(b(reply + self.target.out_terminator))
Push(reply) ==
    IF reply = None THEN [pushed |-> <<>>, escaped |-> None]
    ELSE IF Frame(reply).ok THEN [pushed |-> <<Frame(reply).val>>, escaped |-> None]
    ELSE [pushed |-> <<>>, escaped |-> Frame(reply).err]

\* the except clause and what follows it, try being what the try body did
Reply(try, hook, request) ==
    IF try.res.ok THEN try.res.val ELSE HandleError(hook, request, try.res.err)

\* an except clause for RuntimeError only: anything else leaves
\* found_terminator
FinishCatchingRuntimeError(try, hook, request) ==
    IF try.res.ok \/ try.res.err.cls = "RuntimeError"
    THEN [handled |-> TRUE, request |-> request, cmd |-> try.cmd, calls |-> try.calls,
          errors |-> IF try.res.ok THEN <<>>
                     ELSE <<[request |-> request, error |-> try.res.err]>>,
          reply |-> Reply(try, hook, request),
          pushed |-> Push(Reply(try, hook, request)).pushed,
          escaped |-> Push(Reply(try, hook, request)).escaped,
          attrs |-> try.attrs]
    ELSE [handled |-> TRUE, request |-> request, cmd |-> try.cmd, calls |-> try.calls,
          errors |-> <<>>, reply |-> None, pushed |-> <<>>,
          escaped |-> try.res.err, attrs |-> try.attrs]

Finish(try, hook, request) ==
    [handled |-> TRUE,
     request |-> request,
     cmd |-> try.cmd,
     calls |-> try.calls,
     errors |-> IF try.res.ok THEN <<>>
                ELSE <<[request |-> request, error |-> try.res.err]>>,
     reply |-> Reply(try, hook, request),
     pushed |-> Push(Reply(try, hook, request)).pushed,
     escaped |-> Push(Reply(try, hook, request)).escaped,
     attrs |-> try.attrs]

\* found_terminator, for the request in the buffer: what it did
Dispatch(bound, hook, request, out, attrs) ==
    Finish(TryDispatch(bound, request, out, attrs), hook, request)

(***************************************************************************)
(* The command declarations a StreamAdapter subclass may be written with:  *)
(* the constructor calls in its `commands = [...]`.                        *)
(***************************************************************************)
CmdCall(func, pattern, argument_mappings, return_mapping) ==
    [c |-> "Cmd", func |-> func, pattern |-> pattern,
     argument_mappings |-> argument_mappings, return_mapping |-> return_mapping]
VarCall(member, read_pattern, write_pattern, argument_mappings, return_mapping) ==
    [c |-> "Var", member |-> member, read_pattern |-> read_pattern,
     write_pattern |-> write_pattern, argument_mappings |-> argument_mappings,
     return_mapping |-> return_mapping]

\* r'S', r'S=', r'S([0-9]+)$' and ''
PatS == Pattern(<<Lit("S")>>, FALSE)
PatSEq == Pattern(<<Lit("S"), Lit("=")>>, FALSE)
PatSNum == Pattern(<<Lit("S"), Grp>>, TRUE)
PatEmpty == Pattern(<<>>, FALSE)
\* a function of no arguments passed to Cmd directly: lambda: ...
Lambda == Fn("user", "lambda", 0)

Declarations ==
    { CmdCall(Name("get"), PatS, None, DefaultReturnMapping),
      CmdCall(Name("set"), PatSNum, List(<<LookupMapping>>), UpperMapping),
      CmdCall(Name("stop"), PatSEq, None, PyInt(0)),
      CmdCall(Name("speed"), PatS, None, DefaultReturnMapping),
      CmdCall(Name("nope"), PatS, None, DefaultReturnMapping),
      CmdCall(Lambda, PatEmpty, None, DefaultReturnMapping),
      CmdCall(Lambda, PatEmpty, List(<<>>), DefaultReturnMapping),
      CmdCall(Name("set"), PatSNum, List(<<>>), DefaultReturnMapping),
      VarCall(Name("speed"), PatSEq, PatSNum, List(<<IntMapping>>), None),
      VarCall(Name("speed"), PatS, None, List(<<IntMapping>>), DefaultReturnMapping),
      VarCall(Name("speed"), None, PatS, List(<<IntMapping>>), DefaultReturnMapping),
      VarCall(Name("level"), PatS, None, None, DefaultReturnMapping),
      VarCall(Name("rate"), None, PatSNum, List(<<IntMapping>>), DefaultReturnMapping) }

\* the lists of at most n declarations
RECURSIVE Lists(_, _)
Lists(S, n) ==
    IF n = 0 THEN {<<>>}
    ELSE LET shorter == Lists(S, n - 1)
         IN  shorter \cup {Append(l, x) : l \in shorter, x \in S}

\* what a method of the device or interface may do when called
Outcomes ==
    { Ok(None), Ok(PyStr(<<"S">>)), Ok(PyInt(7)), Raise(Exc("Exception", "device")) }

\* the non-empty strings of at most n characters
RECURSIVE Strings(_)
Strings(n) ==
    IF n = 0 THEN {<<>>}
    ELSE LET shorter == Strings(n - 1)
         IN  shorter \cup {Append(w, c) : w \in shorter, c \in Alphabet}
Chunks == Strings(MaxChunk) \ {<<>>}

(***************************************************************************)
(* State.                                                                  *)
(***************************************************************************)
VARIABLES
    decl,            \* the declarations in the subclass' commands = [...]
    hook,            \* "default", or "override" when handle_error is overridden
    phase,           \* how far construction of the adapter has come
    commands,        \* StreamAdapter.commands: the constructed Cmd and Var objects
    bound_commands,  \* StreamAdapter.bound_commands
    error,           \* the exception that ended construction, or None
    server,          \* StreamAdapter._server is a listening StreamServer
    conn,            \* the connection's StreamHandler: "none", "open", "closed"
    buffer,          \* StreamHandler.buffer
    attrs,           \* the members of interface and device, as getattr reads them
    last,            \* what found_terminator did for the request terminated
                     \* latest, until data of the next request arrives
    adapters,        \* AdapterCollection._adapters, in insertion order
    raised,          \* the exception the latest AdapterCollection call raised
    cycle,           \* the calls AdapterCollection.handle made, when it was
                     \* the latest call on the collection
    called,          \* the latest call on the collection and what it returned
    wire,            \* observer: the bytes the peer sent on the connection
    served,          \* observer: the requests found_terminator dispatched
    written,         \* observer: the frames pushed on the connection
    mapped           \* the latest direct call of a method of a Cmd: the Cmd,
                     \* what it was given, what it returned, the calls of func

stream_vars == <<decl, hook, phase, commands, bound_commands, error, server, conn,
                 buffer, attrs, last>>
collection_vars == <<adapters, raised, cycle, called>>
observer_vars == <<wire, served, written>>
vars == <<decl, hook, phase, commands, bound_commands, error, server, conn,
          buffer, attrs, last, adapters, raised, cycle, called, wire, served, written,
          mapped>>

NoDispatch ==
    [handled |-> FALSE, request |-> <<>>, cmd |-> 0, calls |-> <<>>, errors |-> <<>>,
     reply |-> None, pushed |-> <<>>, escaped |-> None]

InitAttrs ==
    [m \in { <<t, n>> : t \in {"interface", "device"},
                        n \in {"get", "set", "stop", "speed", "level", "rate"} }
        |-> GetAttr(m[1], m[2])]

\* the adapter class before its class statement is executed
StreamStart ==
    /\ hook \in {"default", "override"}
    /\ phase = "declared"
    /\ commands = <<>>
    /\ bound_commands = <<>>
    /\ error = None
    /\ server = FALSE
    /\ conn = "none"
    /\ buffer = <<>>
    /\ attrs = InitAttrs
    /\ last = NoDispatch

StreamInit ==
    /\ decl \in Lists(Declarations, MaxCmds)
    /\ StreamStart

(***************************************************************************)
(* Construction.                                                           *)
(***************************************************************************)
\* one constructor call of the class body
Construct(d) ==
    IF d.c = "Cmd"
    THEN CmdInit(d.func, d.pattern, d.argument_mappings, d.return_mapping)
    ELSE Ok(VarObject(d.member, d.read_pattern, d.write_pattern,
                      d.argument_mappings, d.return_mapping))

\* commands = [ ... ]: the list, or the exception of the first call that raises
RECURSIVE ConstructAll(_, _)
ConstructAll(ds, i) ==
    IF i > Len(ds) THEN Ok(<<>>)
    ELSE LET one == Construct(ds[i])
         IN  IF ~one.ok THEN one
             ELSE LET rest == ConstructAll(ds, i + 1)
                  IN  IF ~rest.ok THEN rest ELSE Ok(<<one.val>> \o rest.val)

\* the class statement of the StreamAdapter subclass is executed
ClassBody ==
    /\ phase = "declared"
    /\ LET cs == ConstructAll(decl, 1)
       IN  IF cs.ok
           THEN /\ phase' = "defined"
                /\ commands' = cs.val
                /\ error' = None
           ELSE /\ phase' = "class_error"
                /\ commands' = <<>>
                /\ error' = cs.err
    /\ UNCHANGED <<decl, hook, bound_commands, server, conn, buffer, attrs, last,
                   adapters, raised, cycle, called, mapped>>
    /\ UNCHANGED observer_vars

\* self.bound_commands = self._bind_commands(self.commands), b being what
\* _bind_commands returned or raised
Bound(b) ==
    IF b.ok
    THEN /\ phase' = "constructed"
         /\ bound_commands' = b.val
         /\ error' = None
    ELSE /\ phase' = "bind_error"
         /\ bound_commands' = <<>>
         /\ error' = b.err

\* an __init__ that starts the server before it binds the commands
AdapterInitListening ==
    /\ phase = "defined"
    /\ Bound(BindCommands(commands))
    /\ server' = TRUE
    /\ UNCHANGED <<decl, hook, commands, conn, buffer, attrs, last,
                   adapters, raised, cycle, called, mapped>>
    /\ UNCHANGED observer_vars

\* StreamAdapter.__init__
AdapterInit ==
    /\ phase = "defined"
    /\ Bound(BindCommands(commands))
    /\ server' = FALSE
    /\ UNCHANGED <<decl, hook, commands, conn, buffer, attrs, last,
                   adapters, raised, cycle, called, mapped>>
    /\ UNCHANGED observer_vars

\* StreamAdapter.start_server
StartServer ==
    /\ phase = "constructed"
    /\ ~server
    /\ server' = TRUE
    /\ UNCHANGED <<decl, hook, phase, commands, bound_commands, error, conn, buffer,
                   attrs, last, adapters, raised, cycle, called, mapped>>
    /\ UNCHANGED observer_vars

(***************************************************************************)
(* The connection.                                                         *)
(***************************************************************************)
\* StreamServer.handle_accept: StreamHandler(sock, self.target)
HandleAccept ==
    /\ server
    /\ conn # "open"
    /\ conn' = "open"
    /\ buffer' = <<>>
    /\ last' = NoDispatch
    /\ UNCHANGED <<decl, hook, phase, commands, bound_commands, error, server, attrs,
                   adapters, raised, cycle, called, mapped>>

\* a collect_incoming_data that puts the data in front: buffer.insert(0, data)
CollectInFront(data) ==
    /\ conn = "open"
    /\ Len(Join(buffer)) + Len(data) <= MaxLen
    /\ buffer' = <<data>> \o buffer
    /\ last' = NoDispatch
    /\ UNCHANGED <<decl, hook, phase, commands, bound_commands, error, server, conn,
                   attrs, adapters, raised, cycle, called, mapped>>

\* StreamHandler.collect_incoming_data(data)
CollectIncomingData(data) ==
    /\ conn = "open"
    /\ Len(Join(buffer)) + Len(data) <= MaxLen
    /\ buffer' = Append(buffer, data)
    /\ last' = NoDispatch
    /\ UNCHANGED <<decl, hook, phase, commands, bound_commands, error, server, conn,
                   attrs, adapters, raised, cycle, called, mapped>>

\* StreamHandler.found_terminator; an exception that leaves it makes asyncore
\* close the channel
Dispatched(d) ==
    /\ last' = [handled |-> d.handled, request |-> d.request, cmd |-> d.cmd,
                calls |-> d.calls, errors |-> d.errors, reply |-> d.reply,
                pushed |-> d.pushed, escaped |-> d.escaped]
    /\ attrs' = d.attrs
    /\ conn' = IF d.escaped = None THEN "open" ELSE "closed"

\* a found_terminator without self.buffer = []
FoundTerminatorKeepingBuffer(out) ==
    /\ conn = "open"
    /\ Dispatched(Dispatch(bound_commands, hook, Join(buffer), out, attrs))
    /\ buffer' = buffer
    /\ UNCHANGED <<decl, hook, phase, commands, bound_commands, error, server,
                   adapters, raised, cycle, called, mapped>>

FoundTerminator(out) ==
    /\ conn = "open"
    /\ Dispatched(Dispatch(bound_commands, hook, Join(buffer), out, attrs))
    /\ buffer' = <<>>
    /\ UNCHANGED <<decl, hook, phase, commands, bound_commands, error, server,
                   adapters, raised, cycle, called, mapped>>

\* the peer closes the connection
HandleClose ==
    /\ conn = "open"
    /\ conn' = "closed"
    /\ buffer' = <<>>
    /\ last' = NoDispatch
    /\ UNCHANGED <<decl, hook, phase, commands, bound_commands, error, server, attrs,
                   adapters, raised, cycle, called, mapped>>
    /\ UNCHANGED observer_vars

(***************************************************************************)
(* AdapterCollection (lewis.core.adapters), as its tests in                *)
(* test_core_adapters.py exercise it with DummyAdapter.  The collection    *)
(* keeps its adapters by protocol; handle(cycle_delay) gives each of the N *)
(* adapters cycle_delay / N: a running adapter handles for that long, for  *)
(* one that is not running the collection sleeps that long.  What handle   *)
(* does on an empty collection the tests do not say: the model does not    *)
(* call it there.                                                          *)
(***************************************************************************)
Protocols == {"foo", "bar", "baz"}

\* DummyAdapter(protocol, running)
DummyAdapter(protocol, running) == [protocol |-> protocol, running |-> running]

\* collection.protocols
RegisteredProtocols(as) == {as[i].protocol : i \in 1..Len(as)}
\* the place of the adapter of a protocol
IndexOf(as, protocol) == CHOOSE i \in 1..Len(as) : as[i].protocol = protocol
\* the adapters that are running
Running(as) == {i \in 1..Len(as) : as[i].running}

\* cycle_delay / n as a fraction
Fraction(num, den) == [num |-> num, den |-> den]
SameTime(a, b) == a.num * b.den = b.num * a.den

\* a delay that divides among the running adapters only
SliceOverRunning(cycle_delay, as) == Fraction(cycle_delay, Cardinality(Running(as)))

\* the delay handle gives each adapter
Slice(cycle_delay, as) == Fraction(cycle_delay, Len(as))

\* a handle that does not look at is_running
HandleOneRegardless(adapter, delay) ==
    [op |-> "handle", protocol |-> adapter.protocol, delay |-> delay]

\* what handle does for one adapter
HandleOne(adapter, delay) ==
    [op |-> IF adapter.running THEN "handle" ELSE "sleep",
     protocol |-> adapter.protocol, delay |-> delay]

\* a handle that skips the adapters that are not running, without sleeping
HandleCallsSkipping(as, cycle_delay) ==
    LET running == SelectSeq(as, LAMBDA a : a.running)
    IN  [i \in 1..Len(running) |-> [op |-> "handle", protocol |-> running[i].protocol,
                                    delay |-> Fraction(cycle_delay, Len(as))]]

\* AdapterCollection.handle(cycle_delay): its calls of adapter.handle and sleep
HandleCalls(as, cycle_delay) ==
    [i \in 1..Len(as) |-> HandleOne(as[i], Slice(cycle_delay, as))]

NoCycle == [handled |-> FALSE, cycle_delay |-> 0, calls |-> <<>>]

\* the sequence without its i-th element
RemoveAt(seq, i) == SubSeq(seq, 1, i - 1) \o SubSeq(seq, i + 1, Len(seq))

\* a connect that starts every adapter, whichever was named
SetRunningOfEvery(as, which, running) ==
    [i \in 1..Len(as) |-> DummyAdapter(as[i].protocol, running)]

\* start_server / stop_server of DummyAdapter
SetRunning(as, which, running) ==
    [i \in 1..Len(as) |-> IF i \in which THEN DummyAdapter(as[i].protocol, running)
                          ELSE as[i]]

PyBool(b) == [t |-> "bool", b |-> b]
\* collection.is_connected(): {protocol: adapter.is_running}
Dict(as) == [t |-> "dict",
             d |-> [protocol \in RegisteredProtocols(as) |-> as[IndexOf(as, protocol)].running]]

\* a call on the collection; protocol is "" when it was called without one
Called(op, protocol, returned) ==
    [op |-> op, protocol |-> protocol, returned |-> returned]
ConnectOp(running) == IF running THEN "connect" ELSE "disconnect"

CollectionInit ==
    /\ adapters = <<>>
    /\ raised = None
    /\ cycle = NoCycle
    /\ called = Called("none", "", None)

\* an add_adapter that does not look for the protocol
AddAdapterAppending(protocol, running) ==
    /\ Len(adapters) < MaxAdapters
    /\ raised' = None
    /\ adapters' = Append(adapters, DummyAdapter(protocol, running))
    /\ cycle' = NoCycle
    /\ called' = Called("add_adapter", protocol, None)
    /\ UNCHANGED <<stream_vars, observer_vars, mapped>>

\* collection.add_adapter(DummyAdapter(protocol, running))
AddAdapter(protocol, running) ==
    /\ IF protocol \in RegisteredProtocols(adapters)
       THEN /\ raised' = Exc("RuntimeError", "add_adapter")
            /\ adapters' = adapters
       ELSE /\ Len(adapters) < MaxAdapters
            /\ raised' = None
            /\ adapters' = Append(adapters, DummyAdapter(protocol, running))
    /\ cycle' = NoCycle
    /\ called' = Called("add_adapter", protocol, None)
    /\ UNCHANGED <<stream_vars, observer_vars, mapped>>

\* collection.remove_adapter(protocol)
RemoveAdapter(protocol) ==
    /\ IF protocol \notin RegisteredProtocols(adapters)
       THEN /\ raised' = Exc("RuntimeError", "remove_adapter")
            /\ adapters' = adapters
       ELSE /\ raised' = None
            /\ adapters' = RemoveAt(adapters, IndexOf(adapters, protocol))
    /\ cycle' = NoCycle
    /\ called' = Called("remove_adapter", protocol, None)
    /\ UNCHANGED <<stream_vars, observer_vars, mapped>>

\* collection.connect(protocol) and collection.disconnect(protocol)
SetConnected(protocol, running) ==
    /\ IF protocol \notin RegisteredProtocols(adapters)
       THEN /\ raised' = Exc("RuntimeError", "connect")
            /\ adapters' = adapters
            /\ called' = Called(ConnectOp(running), protocol, None)
       ELSE /\ raised' = None
            /\ adapters' = SetRunning(adapters, {IndexOf(adapters, protocol)}, running)
            /\ called' = Called(ConnectOp(running), protocol, None)
    /\ cycle' = NoCycle
    /\ UNCHANGED <<stream_vars, observer_vars, mapped>>

\* collection.connect() and collection.disconnect(): every adapter
SetAllConnected(running) ==
    /\ raised' = None
    /\ adapters' = SetRunning(adapters, 1..Len(adapters), running)
    /\ called' = Called(ConnectOp(running), "", None)
    /\ cycle' = NoCycle
    /\ UNCHANGED <<stream_vars, observer_vars, mapped>>

\* collection.is_connected(protocol)
IsConnected(protocol) ==
    /\ IF protocol \notin RegisteredProtocols(adapters)
       THEN /\ raised' = Exc("RuntimeError", "connect")
            /\ called' = Called("is_connected", protocol, None)
       ELSE /\ raised' = None
            /\ called' = Called("is_connected", protocol,
                                PyBool(adapters[IndexOf(adapters, protocol)].running))
    /\ cycle' = NoCycle
    /\ UNCHANGED adapters
    /\ UNCHANGED <<stream_vars, observer_vars, mapped>>

\* collection.is_connected()
IsConnectedAll ==
    /\ raised' = None
    /\ called' = Called("is_connected", "", Dict(adapters))
    /\ cycle' = NoCycle
    /\ UNCHANGED adapters
    /\ UNCHANGED <<stream_vars, observer_vars, mapped>>

\* collection.handle(cycle_delay)
Handle(cycle_delay) ==
    /\ Len(adapters) > 0
    /\ raised' = None
    /\ cycle' = [handled |-> TRUE, cycle_delay |-> cycle_delay,
                 calls |-> HandleCalls(adapters, cycle_delay)]
    /\ called' = Called("handle", "", None)
    /\ UNCHANGED adapters
    /\ UNCHANGED <<stream_vars, observer_vars, mapped>>

\* what the observer of a connection leaves alone
Unobserved == UNCHANGED observer_vars

\* the observer at handle_accept: a new connection, nothing sent or written
ObserveAccept ==
    /\ wire' = <<>>
    /\ served' = <<>>
    /\ written' = <<>>

\* the observer at collect_incoming_data: the peer sent data
ObserveData(data) ==
    /\ Len(wire) + Len(data) <= MaxWire
    /\ wire' = wire \o data
    /\ UNCHANGED <<served, written>>

\* the frames found_terminator pushed for the n-th request
Frames(n, pushed) == [k \in 1..Len(pushed) |-> [request |-> n, frame |-> pushed[k]]]

\* the observer at found_terminator: the peer sent the terminator, the handler
\* dispatched a request and pushed what it pushed
ObserveTerminator ==
    /\ Len(wire) < MaxWire
    /\ wire' = wire \o InTerminator
    /\ served' = Append(served, last'.request)
    /\ written' = written \o Frames(Len(served) + 1, last'.pushed)

NoObservation ==
    /\ wire = <<>>
    /\ served = <<>>
    /\ written = <<>>

\* no method of a Cmd has been called directly
NoMapped ==
    [op |-> "none", cmd |-> None, arguments |-> <<>>, request |-> <<>>,
     result |-> Ok(None), calls |-> <<>>]

Init ==
    /\ StreamInit
    /\ CollectionInit
    /\ NoObservation
    /\ mapped = NoMapped

Next ==
    \/ ClassBody
    \/ AdapterInit
    \/ StartServer
    \/ HandleAccept /\ Unobserved
    \/ \E data \in Chunks : CollectIncomingData(data) /\ Unobserved
    \/ \E out \in Outcomes : FoundTerminator(out) /\ Unobserved
    \/ HandleClose

Spec == Init /\ [][Next]_vars

\* the collection alone, beside an adapter class that declares no commands
CollectionSpecInit ==
    /\ CollectionInit
    /\ NoObservation
    /\ mapped = NoMapped
    /\ decl = <<>>
    /\ StreamStart

CollectionNext ==
    \/ \E protocol \in Protocols, running \in BOOLEAN : AddAdapter(protocol, running)
    \/ \E protocol \in Protocols : RemoveAdapter(protocol)
    \/ \E protocol \in Protocols, running \in BOOLEAN : SetConnected(protocol, running)
    \/ \E running \in BOOLEAN : SetAllConnected(running)
    \/ \E protocol \in Protocols : IsConnected(protocol)
    \/ IsConnectedAll
    \/ \E cycle_delay \in 1..MaxDelay : Handle(cycle_delay)

CollectionSpec == CollectionSpecInit /\ [][CollectionNext]_vars

\* one connection watched from the wire, for adapters that declare these
OrderDeclarations ==
    { CmdCall(Name("get"), PatS, None, DefaultReturnMapping),
      CmdCall(Name("stop"), PatSEq, None, PyInt(0)) }

OrderInit ==
    /\ decl \in Lists(OrderDeclarations, MaxCmds)
    /\ StreamStart
    /\ CollectionInit
    /\ NoObservation
    /\ mapped = NoMapped

OrderNext ==
    \/ ClassBody
    \/ AdapterInit
    \/ StartServer
    \/ HandleAccept /\ ObserveAccept
    \/ \E data \in Chunks : CollectIncomingData(data) /\ ObserveData(data)
    \/ \E out \in Outcomes : FoundTerminator(out) /\ ObserveTerminator
    \/ HandleClose

OrderSpec == OrderInit /\ [][OrderNext]_vars

(***************************************************************************)
(* The methods of a Cmd called directly: map_arguments on the arguments it *)
(* is given, process_request on a request.  The Cmd objects are those      *)
(* Cmd.__init__ constructs for a function of the user, a pattern of up to  *)
(* MaxGroups groups and up to MaxGroups mapping functions.                 *)
(***************************************************************************)
\* r'S$', r'S([0-9]+)$', r'S([0-9]+)=([0-9]+)$', ...
RECURSIVE GroupElems(_)
GroupElems(k) ==
    IF k = 0 THEN <<Lit("S")>>
    ELSE IF k = 1 THEN <<Lit("S"), Grp>>
    ELSE GroupElems(k - 1) \o <<Lit("="), Grp>>
GroupsPattern(k) == Pattern(GroupElems(k), TRUE)

\* def f(a1, ..., an) of the user
UserFunc(n) == Fn("user", "f", n)

\* the strings a group captures here, and the tuples of them
CaptureStrings == {PyStr(<<"1">>), PyStr(<<"1", "1">>)}
Captures == Lists(CaptureStrings, MaxGroups)

\* argument_mappings as given to Cmd: None or a list of int and lookup
MappingLists == {None} \cup {List(l) : l \in Lists({IntMapping, LookupMapping}, MaxGroups)}

\* the Cmd objects whose constructor returns
MapCmds ==
    { c.val : c \in { x \in { CmdInit(UserFunc(n), GroupsPattern(k), m, DefaultReturnMapping) :
                                 n \in 0..MaxGroups, k \in 0..MaxGroups, m \in MappingLists }
                        : x.ok } }

\* the request S<a1>=<a2>=... that the pattern of as many groups captures
\* the arguments from
RECURSIVE RequestFrom(_, _)
RequestFrom(arguments, i) ==
    IF i > Len(arguments) THEN <<>>
    ELSE (IF i = 1 THEN <<>> ELSE <<"=">>) \o arguments[i].s \o RequestFrom(arguments, i + 1)
RequestOf(arguments) == <<"S">> \o RequestFrom(arguments, 1)

\* a Cmd and the arguments its methods are about to be called with
Given(cmd, arguments) ==
    [op |-> "given", cmd |-> cmd, arguments |-> arguments, request |-> <<>>,
     result |-> Ok(None), calls |-> <<>>]

\* cmd.map_arguments(arguments)
MapArgumentsCall ==
    /\ mapped.op = "given"
    /\ mapped' = [op |-> "map_arguments", cmd |-> mapped.cmd,
                  arguments |-> mapped.arguments, request |-> <<>>,
                  result |-> MapArguments(mapped.cmd, mapped.arguments), calls |-> <<>>]
    /\ UNCHANGED <<stream_vars, collection_vars, observer_vars>>

\* cmd.process_request(request), r being what it did
Requested(cmd, request, r) ==
    mapped' = [op |-> "process_request", cmd |-> cmd, arguments |-> <<>>,
               request |-> request, result |-> r.res, calls |-> r.calls]

\* cmd.process_request(request) for the request made of the arguments
ProcessRequestCall(out) ==
    /\ mapped.op = "given"
    /\ Requested(mapped.cmd, RequestOf(mapped.arguments),
                 ProcessRequest(mapped.cmd, RequestOf(mapped.arguments), out, attrs))
    /\ UNCHANGED <<stream_vars, collection_vars, observer_vars>>

MapInit ==
    /\ decl = <<>>
    /\ StreamStart
    /\ CollectionInit
    /\ NoObservation
    /\ mapped \in {Given(cmd, arguments) : cmd \in MapCmds, arguments \in Captures}

MapNext ==
    \/ MapArgumentsCall
    \/ \E out \in Outcomes : ProcessRequestCall(out)

MapSpec == MapInit /\ [][MapNext]_vars

(***************************************************************************)
(* Properties of the dispatcher.  They are stated about `last`, the record *)
(* of the latest found_terminator, and the binding table it ran against.   *)
(***************************************************************************)
\* the pattern of the i-th bound command matches at the start of the request
PatternMatches(i, request) ==
    /\ bound_commands[i].pattern # NoPattern
    /\ Match(bound_commands[i].pattern, request).m
\* the commands before the i-th all have a pattern to try
ScanReaches(i) ==
    \A j \in 1..(i - 1) : bound_commands[j].pattern # NoPattern
\* the i-th is the first command whose pattern matches
FirstMatch(i, request) ==
    /\ i \in 1..Len(bound_commands)
    /\ PatternMatches(i, request)
    /\ \A j \in 1..(i - 1) : ~PatternMatches(j, request)
NothingMatches(request) ==
    \A i \in 1..Len(bound_commands) : ~PatternMatches(i, request)
NoCommandMatched == Exc("RuntimeError", "None of the device's commands matched.")

\* C1  First match wins.  A command the dispatcher hands a request to is the
\* one with the lowest table index whose pattern matches at the start of the
\* request, every call made is a call of that command's callable, and when
\* two commands match the later one is never the one invoked; the first
\* matching command is invoked whenever the scan gets to it.
FirstMatchWins ==
    last.handled =>
        /\ last.cmd # 0 => FirstMatch(last.cmd, last.request)
        /\ \A k \in 1..Len(last.calls) :
              /\ last.cmd # 0
              /\ last.calls[k].func = bound_commands[last.cmd].func
        /\ \A a, b \in 1..Len(bound_commands) :
              (a < b /\ PatternMatches(a, last.request)
                     /\ PatternMatches(b, last.request)) => last.cmd # b
        /\ \A a \in 1..Len(bound_commands) :
              (FirstMatch(a, last.request) /\ ScanReaches(a)) => last.cmd = a

\* C1 witness: a table [A, B], both matching the request, and A was called
FirstMatchWinsWitness ==
    /\ last.handled
    /\ Len(bound_commands) = 2
    /\ PatternMatches(1, last.request)
    /\ PatternMatches(2, last.request)
    /\ bound_commands[1].pattern # bound_commands[2].pattern
    /\ last.cmd = 1
    /\ Len(last.calls) = 1
    /\ last.calls[1].func = bound_commands[1].func

\* the exception the stages of dispatch raise for the latest request, by what
\* the request, the table and the call made say, or None when none raises
StageError ==
    IF \E i \in 1..Len(bound_commands) :
          /\ bound_commands[i].pattern = NoPattern
          /\ \A j \in 1..(i - 1) : ~PatternMatches(j, last.request)
    THEN Exc("AttributeError", "match")
    ELSE IF NothingMatches(last.request) THEN NoCommandMatched
    ELSE IF last.cmd = 0 THEN None
    ELSE IF ~Callable(bound_commands[last.cmd].func)
    THEN Exc("RuntimeError", "unbound Binder")
    ELSE IF ~MapArguments(bound_commands[last.cmd],
                          Match(bound_commands[last.cmd].pattern, last.request).groups).ok
    THEN MapArguments(bound_commands[last.cmd],
                      Match(bound_commands[last.cmd].pattern, last.request).groups).err
    ELSE IF last.calls = <<>> THEN None
    ELSE IF ~last.calls[1].result.ok THEN last.calls[1].result.err
    ELSE IF ~MapReturnValue(bound_commands[last.cmd], last.calls[1].result.val).ok
    THEN MapReturnValue(bound_commands[last.cmd], last.calls[1].result.val).err
    ELSE None

\* C2  Dispatch errors never escape.  Whenever no command matches, or the
\* scan, the argument mapping, the bound callable or the return mapping
\* raises, handle_error is called once, with the request and that exception,
\* its return value is the reply, found_terminator returns normally and the
\* connection stays open.
ErrorsAreHandled ==
    (last.handled /\ StageError # None) =>
        /\ last.errors = <<[request |-> last.request, error |-> StageError]>>
        /\ last.reply = HandleError(hook, last.request, StageError)
        /\ last.escaped = None
        /\ conn = "open"

\* C2 witness: the bound callable raised and the connection is still open
ErrorsAreHandledWitness ==
    /\ last.handled
    /\ Len(last.calls) = 1
    /\ ~last.calls[1].result.ok
    /\ Len(last.errors) = 1
    /\ conn = "open"

\* C3  No match.  When no bound command's pattern matches the request, no
\* bound callable is called, handle_error is called exactly once with the
\* request and the 'None of the device's commands matched.' error, and with
\* the default handle_error nothing is written.
NoMatchIsReported ==
    (last.handled /\ NothingMatches(last.request)) =>
        /\ last.calls = <<>>
        /\ last.errors = <<[request |-> last.request, error |-> NoCommandMatched]>>
        /\ hook = "default" => last.pushed = <<>>

\* C4  Null-reply suppression.  When the reply is None, because the return
\* mapping of the command gave None or because handle_error returned None,
\* nothing is written to the connection for the request.
NullReplyWritesNothing ==
    last.handled =>
        /\ last.reply = None => last.pushed = <<>>
        /\ (last.errors # <<>> /\ hook = "default") => last.pushed = <<>>
        /\ (/\ Len(last.calls) = 1
            /\ last.calls[1].result.ok
            /\ MapReturnValue(bound_commands[last.cmd], last.calls[1].result.val) = Ok(None))
           => last.pushed = <<>>

\* C4 witness: the callable returned None, the default return mapping kept
\* it None, and nothing was written
NullReplyWitness ==
    /\ last.handled
    /\ Len(last.calls) = 1
    /\ last.calls[1].result = Ok(None)
    /\ bound_commands[last.cmd].return_mapping = DefaultReturnMapping
    /\ last.errors = <<>>
    /\ last.reply = None
    /\ last.pushed = <<>>

\* C5  Every reply that is not None is written, as the reply followed by the
\* out terminator, whether it came from a command or from handle_error.
ReplyIsFramed ==
    (last.handled /\ last.reply # None) =>
        last.pushed = <<StrOf(last.reply) \o OutTerminator>>

(***************************************************************************)
(* Properties of binding.                                                  *)
(***************************************************************************)
\* the commands each declaration would bind to, one after the other, when
\* every one of them binds
AllBind ==
    \A i \in 1..Len(commands) :
        BindEither(commands[i]).ok /\ BindEither(commands[i]).val # None
RECURSIVE Candidates(_)
Candidates(i) ==
    IF i > Len(commands) THEN <<>>
    ELSE BindEither(commands[i]).val.items \o Candidates(i + 1)
HasDuplicatePattern(cs) ==
    \E i, j \in 1..Len(cs) : i < j /\ cs[i].pattern = cs[j].pattern

\* C6  Binding uniqueness.  Building the table fails when a bound command,
\* from a Cmd or from the getter or setter of a Var, has the compiled pattern
\* of a command already in the table, and no two entries of a table that was
\* built share a pattern.
PatternsAreUnique ==
    /\ phase = "constructed" => ~HasDuplicatePattern(bound_commands)
    /\ (phase \in {"constructed", "bind_error"} /\ AllBind
            /\ HasDuplicatePattern(Candidates(1)))
       => /\ phase = "bind_error"
          /\ error \in {Exc("RuntimeError", "multiple commands"),
                        Exc("AttributeError", "pattern")}

\* C6 witness: the getter or setter of a Var repeats the pattern of a Cmd
\* declared before it, and construction failed for it
PatternsAreUniqueWitness ==
    /\ phase = "bind_error"
    /\ error = Exc("RuntimeError", "multiple commands")
    /\ Len(commands) = 2
    /\ commands[1].t = "Cmd"
    /\ commands[2].t = "Var"

\* pattern.groups of the pattern a declaration is written with
DeclaredGroups(pattern) == Groups(pattern)

\* C7  Binding arity.  A Cmd declared with N capture groups in its pattern
\* and M argument mappings is constructed iff N = M, or no mappings are
\* given.
ArityDecidesConstruction ==
    (phase # "declared" /\ Len(decl) = 1 /\ decl[1].c = "Cmd") =>
        ((phase # "class_error")
            <=> \/ decl[1].argument_mappings = None
                \/ DeclaredGroups(decl[1].pattern)
                     = Len(decl[1].argument_mappings.items))

(***************************************************************************)
(* Properties of AdapterCollection.handle.  They are stated about `cycle`, *)
(* the record of the latest handle, and the adapters it ran over.          *)
(***************************************************************************)
HandleCallsFor(protocol) ==
    {k \in 1..Len(cycle.calls) :
        cycle.calls[k].op = "handle" /\ cycle.calls[k].protocol = protocol}
Sleeps == {k \in 1..Len(cycle.calls) : cycle.calls[k].op = "sleep"}
Handles == {k \in 1..Len(cycle.calls) : cycle.calls[k].op = "handle"}

\* C8, as the specification words it: the budget of a running adapter is
\* cycle_delay over the number of adapters that are running
BudgetOverRunning ==
    cycle.handled =>
        /\ \A i \in Running(adapters) :
              /\ Cardinality(HandleCallsFor(adapters[i].protocol)) = 1
              /\ \A k \in HandleCallsFor(adapters[i].protocol) :
                    SameTime(cycle.calls[k].delay,
                             Fraction(cycle.cycle_delay, Cardinality(Running(adapters))))
        /\ Running(adapters) = {} =>
              /\ Handles = {}
              /\ \A k \in Sleeps :
                    Cardinality(Sleeps) * cycle.calls[k].delay.num
                        = cycle.cycle_delay * cycle.calls[k].delay.den

\* C8  In handle(T) over N > 0 registered adapters, the handle of each
\* running adapter is called exactly once, with T/N; when none is running no
\* handle is called and the whole of T is slept, in N sleeps of T/N.
BudgetOverRegistered ==
    cycle.handled =>
        /\ \A i \in Running(adapters) :
              /\ Cardinality(HandleCallsFor(adapters[i].protocol)) = 1
              /\ \A k \in HandleCallsFor(adapters[i].protocol) :
                    SameTime(cycle.calls[k].delay,
                             Fraction(cycle.cycle_delay, Len(adapters)))
        /\ Running(adapters) = {} =>
              /\ Handles = {}
              /\ Cardinality(Sleeps) = Len(adapters)
              /\ \A k \in Sleeps :
                    Cardinality(Sleeps) * cycle.calls[k].delay.num
                        = cycle.cycle_delay * cycle.calls[k].delay.den

\* C8 witness: one adapter running among two, handled for half the delay
BudgetOverRegisteredWitness ==
    /\ cycle.handled
    /\ Len(adapters) = 2
    /\ Cardinality(Running(adapters)) = 1
    /\ \E k \in Handles : cycle.calls[k].delay = Fraction(cycle.cycle_delay, 2)

\* C9  handle(T) over N registered adapters gives every adapter T/N, in the
\* order of the collection: handle(T/N) for one that is running, sleep(T/N)
\* for one that is not.
EveryAdapterGetsASlice ==
    cycle.handled =>
        /\ Len(cycle.calls) = Len(adapters)
        /\ \A i \in 1..Len(adapters) :
              /\ cycle.calls[i].protocol = adapters[i].protocol
              /\ cycle.calls[i].op = "handle" <=> adapters[i].running
              /\ cycle.calls[i].op = "sleep" <=> ~adapters[i].running
              /\ cycle.calls[i].delay.num * Len(adapters)
                    = cycle.cycle_delay * cycle.calls[i].delay.den

\* C9 witness: two stopped adapters, two sleeps of half the delay
EveryAdapterGetsASliceWitness ==
    /\ cycle.handled
    /\ Len(adapters) = 2
    /\ Running(adapters) = {}
    /\ Cardinality(Sleeps) = 2
    /\ \A k \in Sleeps : cycle.calls[k].delay = Fraction(cycle.cycle_delay, 2)

\* C10  handle is never called on an adapter that is not running, nor on one
\* that is not registered.
OnlyRunningAdaptersHandle ==
    cycle.handled =>
        \A k \in Handles :
            \E i \in 1..Len(adapters) :
                /\ adapters[i].protocol = cycle.calls[k].protocol
                /\ adapters[i].running

\* C10 witness: a handle over a running and a stopped adapter
OnlyRunningAdaptersHandleWitness ==
    /\ cycle.handled
    /\ Handles # {}
    /\ \E i \in 1..Len(adapters) : ~adapters[i].running

(***************************************************************************)
(* Properties of the registry of the collection.  They are stated about a  *)
(* step: `called` of the state reached is the call that made the step.     *)
(***************************************************************************)
\* no two adapters of the collection have the same protocol
UniqueProtocols ==
    \A i, j \in 1..Len(adapters) : adapters[i].protocol = adapters[j].protocol => i = j

\* the step is a call of one of ops
CallOf(ops) == called'.op \in ops
\* the call of the step named a protocol that no adapter of the collection has
NamesUnregistered == called'.protocol # "" /\ called'.protocol \notin RegisteredProtocols(adapters)
\* the call raised RuntimeError and left the adapters as they were
FailsUnchanged == raised'.t = "exc" /\ raised'.cls = "RuntimeError" /\ adapters' = adapters

RegistryIntegrityStep ==
    /\ CallOf({"add_adapter"}) /\ called'.protocol \in RegisteredProtocols(adapters)
          => FailsUnchanged
    /\ CallOf({"remove_adapter"}) /\ NamesUnregistered => FailsUnchanged
    /\ CallOf({"add_adapter", "remove_adapter"}) /\ raised' # None
          => RegisteredProtocols(adapters') = RegisteredProtocols(adapters)
    /\ UniqueProtocols'

\* C11: add_adapter of a protocol the collection has raises RuntimeError and
\* remove_adapter of one it has not raises RuntimeError; a failed add or remove
\* leaves the set of protocols as it was; the protocols of the adapters are
\* unique in every state
RegistryIntegrity == [][RegistryIntegrityStep]_vars

\* add_adapter was refused for a protocol that is registered
RegistryIntegrityWitness ==
    /\ called.op = "add_adapter"
    /\ raised = Exc("RuntimeError", "add_adapter")
    /\ called.protocol \in RegisteredProtocols(adapters)

\* the step leaves the adapters in their places
SameAdapters ==
    /\ Len(adapters') = Len(adapters)
    /\ \A i \in 1..Len(adapters) : adapters'[i].protocol = adapters[i].protocol

\* the running flags of all adapters but the one of the protocol are as before
OthersKeepRunning(protocol) ==
    /\ SameAdapters
    /\ \A i \in 1..Len(adapters) :
          adapters[i].protocol # protocol => adapters'[i].running = adapters[i].running

ConnectIsolationStep ==
    /\ CallOf({"connect", "disconnect"}) /\ called'.protocol # "" /\ ~NamesUnregistered
          => /\ raised' = None
             /\ OthersKeepRunning(called'.protocol)
             /\ adapters'[IndexOf(adapters, called'.protocol)].running
                   = (called'.op = "connect")
    /\ CallOf({"connect", "disconnect", "is_connected"}) /\ NamesUnregistered
          => FailsUnchanged
    /\ CallOf({"connect", "disconnect"}) /\ called'.protocol = ""
          => /\ raised' = None
             /\ SameAdapters
             /\ \A i \in 1..Len(adapters') : adapters'[i].running = (called'.op = "connect")
    /\ CallOf({"is_connected"}) /\ called'.protocol = ""
          => /\ raised' = None
             /\ adapters' = adapters
             /\ called'.returned.t = "dict"
             /\ DOMAIN called'.returned.d = RegisteredProtocols(adapters)
             /\ \A i \in 1..Len(adapters) :
                   called'.returned.d[adapters[i].protocol] = adapters[i].running

\* C12: connect(protocol) and disconnect(protocol) change the running flag of
\* no adapter but the named one; with a protocol that is not registered they,
\* and is_connected(protocol), raise RuntimeError and change no flag; without
\* a protocol connect and disconnect set the flag of every adapter, and
\* is_connected returns the running flag of every registered protocol
ConnectIsolation == [][ConnectIsolationStep]_vars

\* connect(protocol) started one adapter while another stays stopped
ConnectIsolationWitness ==
    /\ called.op = "connect"
    /\ called.protocol \in RegisteredProtocols(adapters)
    /\ raised = None
    /\ \E i \in 1..Len(adapters) : adapters[i].protocol # called.protocol /\ ~adapters[i].running

(***************************************************************************)
(* Properties of one connection, stated about what its observer recorded:  *)
(* the bytes on the wire, the requests dispatched and the frames pushed.   *)
(***************************************************************************)
\* the places of the terminators on the wire
Terminators(w) == {i \in 1..Len(w) : <<w[i]>> = InTerminator}
FirstTerminator(w) == CHOOSE i \in Terminators(w) : \A j \in Terminators(w) : i <= j
LastTerminator(w) == CHOOSE i \in Terminators(w) : \A j \in Terminators(w) : j <= i

\* the terminated requests on the wire, in the order they arrived
RECURSIVE Arrived(_)
Arrived(w) ==
    IF Terminators(w) = {} THEN <<>>
    ELSE <<SubSeq(w, 1, FirstTerminator(w) - 1)>>
            \o Arrived(SubSeq(w, FirstTerminator(w) + 1, Len(w)))

\* the bytes on the wire after the last terminator
Pending(w) ==
    IF Terminators(w) = {} THEN w ELSE SubSeq(w, LastTerminator(w) + 1, Len(w))

\* C14: on one connection the k-th request dispatched is the k-th terminated
\* request that arrived, every terminated request has been dispatched before
\* anything of the next is seen, the frames pushed follow the order of the
\* requests, and the dispatch just made is of the request terminated latest
InArrivalOrder ==
    /\ served = Arrived(wire)
    /\ \A k \in 1..Len(written) : written[k].request \in 1..Len(served)
    /\ \A j, k \in 1..Len(written) : j < k => written[j].request <= written[k].request
    /\ last.handled => /\ served # <<>>
                       /\ last.request = served[Len(served)]
                       /\ \A k \in 1..Len(written) :
                             written[k].request = Len(served) => <<written[k].frame>> = last.pushed

\* two different requests were dispatched and both were replied to
InArrivalOrderWitness ==
    /\ Len(served) = 2
    /\ served[1] # served[2]
    /\ Len(written) = 2
    /\ written[1].frame # written[2].frame

\* C17: after every terminator the buffer is empty, whatever the dispatch
\* did; the request dispatched is the bytes received since the terminator
\* before, in the order received; the buffer holds the bytes received since
\* the last terminator and nothing of an earlier request
Framing ==
    /\ conn = "open" => Join(buffer) = Pending(wire)
    /\ wire # <<>> /\ <<wire[Len(wire)]>> = InTerminator => buffer = <<>>
    /\ last.handled => /\ buffer = <<>>
                       /\ Arrived(wire) # <<>>
                       /\ last.request = Arrived(wire)[Len(Arrived(wire))]

\* a second request, of two chunks or more bytes, ended in the error hook
FramingWitness ==
    /\ last.handled
    /\ last.errors # <<>>
    /\ Len(Arrived(wire)) = 2
    /\ Len(last.request) >= 2
    /\ buffer = <<>>

(***************************************************************************)
(* Properties of the construction of the adapter and of its binding table. *)
(***************************************************************************)
\* C15: the server listens only on an adapter whose __init__ returned, that
\* is whose commands were all constructed and bound: bound_commands is then
\* what _bind_commands gave for the declared commands; an adapter whose
\* class statement or whose binding raised has no server and no connection
ListensOnlyWhenBound ==
    /\ server => /\ phase = "constructed"
                 /\ error = None
                 /\ BindCommands(commands).ok
                 /\ bound_commands = BindCommands(commands).val
    /\ phase \in {"class_error", "bind_error"} => ~server /\ conn = "none" /\ error # None
    /\ conn # "none" => phase = "constructed"

\* a server listens, with a connection, on an adapter of two bound commands
ListensOnlyWhenBoundWitness ==
    /\ server
    /\ conn = "open"
    /\ Len(bound_commands) = 2

\* the member a declaration names: the str given to Cmd as func, or the
\* member of a Var; None for a Cmd of a callable
NamedMember(c) ==
    IF c.t = "Var" THEN c.member
    ELSE IF Callable(c.func) THEN None
    ELSE c.func

\* the bound command is made of the member of the declaration c on target
ResolvedOn(bound_cmd, c, target) ==
    IF c.t = "Cmd" THEN bound_cmd.func = GetAttr(target, c.func.name)
    ELSE bound_cmd.func \in {Getter(target, c.member.name), Setter(target, c.member.name)}

\* the target the spec's order gives for a member: the interface when it has
\* the member, else the device when it has it, else none
TargetOf(name) ==
    IF InDir("interface", name) THEN "interface"
    ELSE IF InDir("device", name) THEN "device"
    ELSE "neither"

IsMissingMember(e) == e # None /\ e.what = "non-existing member"

\* C16: a declaration that names a member is bound to the member of the
\* interface when the interface has it, to the member of the device only
\* otherwise, and _bind_commands raises the RuntimeError that names the
\* member exactly when neither has it
MemberResolution ==
    (phase \in {"constructed", "bind_error"} /\ Len(commands) = 1
        /\ NamedMember(commands[1]) # None)
    => /\ phase = "constructed" =>
            /\ TargetOf(NamedMember(commands[1]).name) # "neither"
            /\ \A k \in 1..Len(bound_commands) :
                  ResolvedOn(bound_commands[k], commands[1],
                             TargetOf(NamedMember(commands[1]).name))
       /\ IsMissingMember(error) <=> TargetOf(NamedMember(commands[1]).name) = "neither"
       /\ IsMissingMember(error) => error = MissingMember(NamedMember(commands[1]))

\* the error that says a bound command is not bound
UnboundBinder == Exc("RuntimeError", "unbound Binder")

\* C18: every command of a binding table that was built has a callable func,
\* and no request dispatched to a command of the table ends in 'Trying to
\* process request on unbound Binder'
BoundCommandsAreCallable ==
    /\ phase = "constructed" => \A k \in 1..Len(bound_commands) : Callable(bound_commands[k].func)
    /\ last.handled /\ last.cmd # 0 =>
          \A k \in 1..Len(last.errors) : last.errors[k].error # UnboundBinder

\* what a declaration contributes to the table: one command for a Cmd; for a
\* Var the getter when it has a read pattern, then the setter when it has a
\* write pattern
Role(func) ==
    IF func.t = "fn" /\ func.name \in {"getter", "setter"} THEN func.name ELSE "cmd"
Contribution(c, i) ==
    IF c.t = "Cmd" THEN <<[decl |-> i, role |-> "cmd", pattern |-> c.pattern]>>
    ELSE (IF c.read_pattern # None
          THEN <<[decl |-> i, role |-> "getter", pattern |-> Compile(c.read_pattern)]>>
          ELSE <<>>)
         \o (IF c.write_pattern # None
             THEN <<[decl |-> i, role |-> "setter", pattern |-> Compile(c.write_pattern)]>>
             ELSE <<>>)
RECURSIVE Contributions(_)
Contributions(i) ==
    IF i > Len(commands) THEN <<>>
    ELSE Contribution(commands[i], i) \o Contributions(i + 1)

TableInDeclarationOrder ==
    phase = "constructed" =>
        /\ Len(bound_commands) = Len(Contributions(1))
        /\ \A k \in 1..Len(bound_commands) :
              /\ bound_commands[k].pattern = Contributions(1)[k].pattern
              /\ Role(bound_commands[k].func) = Contributions(1)[k].role

TableIsKept ==
    phase = "constructed" => phase' = "constructed" /\ bound_commands' = bound_commands

\* C19: the binding table holds the commands in the order of their
\* declarations, a Var with a read and a write pattern giving its getter and
\* right after it its setter; no step after construction changes the table
TableKeepsOrder == []TableInDeclarationOrder /\ [][TableIsKept]_vars

\* a request was handled by the table of a Cmd and a Var of two patterns
TableKeepsOrderWitness ==
    /\ phase = "constructed"
    /\ Len(bound_commands) = 3
    /\ Role(bound_commands[2].func) = "getter"
    /\ Role(bound_commands[3].func) = "setter"
    /\ last.handled

\* C20: for one request found_terminator calls at most one func, that of the
\* command it selected, at most once; it calls handle_error at most once; it
\* pushes at most one frame; when the call raised there is no second call
AtMostOneAttempt ==
    last.handled =>
        /\ Len(last.calls) <= 1
        /\ Len(last.errors) <= 1
        /\ Len(last.pushed) <= 1
        /\ \A k \in 1..Len(last.calls) :
              last.cmd # 0 /\ last.calls[k].func = bound_commands[last.cmd].func

\* the one call raised, handle_error was called once and its reply was pushed
AtMostOneAttemptWitness ==
    /\ last.handled
    /\ Len(last.calls) = 1
    /\ ~last.calls[1].result.ok
    /\ Len(last.errors) = 1
    /\ Len(last.pushed) = 1

(***************************************************************************)
(* Properties of the argument mapping, stated about `mapped`, the latest   *)
(* direct call of map_arguments or process_request on a Cmd.               *)
(***************************************************************************)
Min(a, b) == IF a <= b THEN a ELSE b
\* the mapping functions of the Cmd that was called
MappingsGiven == mapped.cmd.argument_mappings.items
\* the i-th mapping function applied to the i-th of the values
Converted(values, i) == ApplyMapping(MappingsGiven[i], values[i])
\* as many of the values as have a mapping function
Paired(values) == 1..Min(Len(MappingsGiven), Len(values))
\* what the pattern of the Cmd captured from the request
Captured == Match(mapped.cmd.pattern, mapped.request).groups

\* process_request passes func one argument for each group of the pattern:
\* the captured string, or what the mapping function of its place made of it
FuncGetsEveryGroup ==
    mapped.op = "process_request" /\ mapped.calls # <<>> =>
        /\ Len(mapped.calls) = 1
        /\ Len(Captured) = Groups(mapped.cmd.pattern)
        /\ Len(mapped.calls[1].args) = Groups(mapped.cmd.pattern)
        /\ \A i \in 1..Len(Captured) :
              mapped.calls[1].args[i]
                 = IF mapped.cmd.argument_mappings = None THEN Captured[i]
                   ELSE Converted(Captured, i).val

\* C21: map_arguments converts the i-th argument by the i-th mapping function
\* and returns the arguments as they are when no mappings are given; it
\* returns as many values as the shorter of mappings and arguments has, so
\* arguments beyond the mappings are dropped; Cmd.__init__ lets the mappings
\* be as many as the groups only, so process_request passes func one
\* argument for each group
MappingIsPairwise ==
    /\ mapped.op = "map_arguments" /\ mapped.cmd.argument_mappings = None
          => mapped.result = Ok(mapped.arguments)
    /\ mapped.op = "map_arguments" /\ mapped.cmd.argument_mappings # None
          => /\ mapped.result.ok
                   <=> \A i \in Paired(mapped.arguments) : Converted(mapped.arguments, i).ok
             /\ mapped.result.ok
                   => /\ DOMAIN mapped.result.val = Paired(mapped.arguments)
                      /\ \A i \in Paired(mapped.arguments) :
                            mapped.result.val[i] = Converted(mapped.arguments, i).val
    /\ FuncGetsEveryGroup

\* map_arguments of a Cmd of one mapping, given two arguments, returned one
MappingIsPairwiseWitness ==
    /\ mapped.op = "map_arguments"
    /\ mapped.cmd.argument_mappings # None
    /\ Len(MappingsGiven) = 1
    /\ Len(mapped.arguments) = 2
    /\ mapped.result.ok
    /\ Len(mapped.result.val) = 1

\* C21 as the spec has it: map_arguments converts the i-th argument by the
\* i-th mapping function and returns the arguments that have no mapping
\* function as the strings they are, so that as many values are returned as
\* arguments were given, and process_request passes func one argument for
\* each group
EveryCaptureIsPassed ==
    /\ mapped.op = "map_arguments" /\ mapped.cmd.argument_mappings = None
          => mapped.result = Ok(mapped.arguments)
    /\ (mapped.op = "map_arguments" /\ mapped.cmd.argument_mappings # None
            /\ \A i \in Paired(mapped.arguments) : Converted(mapped.arguments, i).ok)
          => /\ mapped.result.ok
             /\ Len(mapped.result.val) = Len(mapped.arguments)
             /\ \A i \in 1..Len(mapped.arguments) :
                   mapped.result.val[i]
                      = IF i <= Len(MappingsGiven) THEN Converted(mapped.arguments, i).val
                        ELSE mapped.arguments[i]
    /\ FuncGetsEveryGroup
====
